---- MODULE Spec2Model ----
(***************************************************************************)
(* A model of the fuelpricesgr front end (frontend/src/js/main.js): the    *)
(* page object Main, its fuel type selector, the latest country data       *)
(* table, the daily country data chart and the prefecture data table, and  *)
(* the requests that fill them.                                            *)
(*                                                                         *)
(* Conventions.  A price is an integer number of thousandths of a euro     *)
(* (1750 is 1.750), so that toFixed(3) is exact.  A JavaScript value that  *)
(* may be null is a sequence of length at most one (<< >> is null).  The   *)
(* Greek labels of enums.js are written in Latin letters; they are used    *)
(* only as lookup keys.                                                    *)
(***************************************************************************)
EXTENDS Integers, Sequences, FiniteSets, TLC

(***************************************************************************)
(* Bounds of the model.                                                    *)
(***************************************************************************)
\* the longest daily series a response carries (records)
MaxDays == 2
\* the most observations in one record of the series the chart loader is fed
MaxObs == 2
\* the most observations in one record of the payloads the page is fed
MaxPageObs == 1
\* the most observations of one prefecture in the region payloads the page is fed
MaxRegionObs == 0
\* the prices of the payloads the page is fed are 1 .. MaxPrice
MaxPrice == 1
\* the prices of the series the chart loader is fed are 1 .. MaxAlignPrice
MaxAlignPrice == 2
\* the dates are 1 .. MaxDate
MaxDate == 2
\* the most requests in flight at once
MaxInFlight == 2
\* the registry is cut to its first MaxPrefectures prefectures
MaxPrefectures == 2
\* the longest series the latest country data table is fed (records)
MaxLatestDays == 3
\* formatEvolution is applied to the prices 0 .. MaxEvolutionPrice
MaxEvolutionPrice == 12

(***************************************************************************)
(* JavaScript values.                                                      *)
(***************************************************************************)
\* undefined, where a number is expected: what `?.price` gives when find()
\* found nothing
Undefined == -1

Null == << >>

Some(v) == << v >>

SeqsUpTo(S, n) == UNION {[1..k -> S] : k \in 0..n}

(***************************************************************************)
(* enums.js                                                                *)
(***************************************************************************)
\* Object.keys(FuelType), in declaration order
FuelTypeKeys ==
  << "UNLEADED_95", "UNLEADED_100", "GAS", "DIESEL", "DIESEL_HEATING", "SUPER" >>

FuelTypeSet == {FuelTypeKeys[i] : i \in 1..Len(FuelTypeKeys)}

FuelType ==
  [f \in FuelTypeSet |->
     CASE f = "UNLEADED_95"    -> [label |-> "Amolyvdi 95", defaultUnselected |-> FALSE]
       [] f = "UNLEADED_100"   -> [label |-> "Amolyvdi 100", defaultUnselected |-> FALSE]
       [] f = "GAS"            -> [label |-> "Ygraerio", defaultUnselected |-> FALSE]
       [] f = "DIESEL"         -> [label |-> "Diesel", defaultUnselected |-> FALSE]
       [] f = "DIESEL_HEATING" -> [label |-> "Diesel Thermansis", defaultUnselected |-> FALSE]
       [] f = "SUPER"          -> [label |-> "Super", defaultUnselected |-> TRUE]]

\* Object.keys(Prefecture), in declaration order
AllPrefectureKeys ==
  << "ATTICA", "AETOLIA_ACARNANIA", "ARGOLIS", "ARKADIAS", "ARTA", "ACHAEA",
     "BOEOTIA", "GREVENA", "DRAMA", "DODECANESE", "EVROS", "EUBOEA",
     "EVRYTANIA", "ZAKYNTHOS", "ELIS", "IMATHIA", "HERAKLION", "THESPROTIA",
     "THESSALONIKI", "IOANNINA", "KAVALA", "KARDITSA", "KASTORIA", "KERKYRA",
     "CEPHALONIA", "KILKIS", "KOZANI", "CORINTHIA", "CYCLADES", "LACONIA",
     "LARISSA", "LASITHI", "LESBOS", "LEFKADA", "MAGNESIA", "MESSENIA",
     "XANTHI", "PELLA", "PIERIA", "PREVEZA", "RETHYMNO", "RHODOPE", "SAMOS",
     "SERRES", "TRIKALA", "PHTHIOTIS", "FLORINA", "PHOCIS", "CHALKIDIKI",
     "CHANIA", "CHIOS" >>

\* the prefectures of the model: the first MaxPrefectures of the registry
PrefectureKeys == SubSeq(AllPrefectureKeys, 1, MaxPrefectures)

PrefectureSet == {PrefectureKeys[i] : i \in 1..Len(PrefectureKeys)}

\* the labels of Prefecture, each letter written as its position in the Greek
\* alphabet (a space as 0, a letter with dialytika as the letter), which is
\* what the comparison of two labels looks at first
Prefecture ==
  [ATTICA |-> << 1, 19, 19, 9, 10, 7, 18 >>,
   AETOLIA_ACARNANIA |-> << 1, 9, 19, 24, 11, 9, 1, 18, 0, 10, 1, 9, 0, 1, 10, 1, 17, 13, 1, 13, 9, 1, 18 >>,
   ARGOLIS |-> << 1, 17, 3, 15, 11, 9, 4, 15, 18 >>,
   ARKADIAS |-> << 1, 17, 10, 1, 4, 9, 1, 18 >>,
   ARTA |-> << 1, 17, 19, 7, 18 >>,
   ACHAEA |-> << 1, 22, 1, 9, 1, 18 >>,
   BOEOTIA |-> << 2, 15, 9, 24, 19, 9, 1, 18 >>,
   GREVENA |-> << 3, 17, 5, 2, 5, 13, 24, 13 >>,
   DRAMA |-> << 4, 17, 1, 12, 1, 18 >>,
   DODECANESE |-> << 4, 24, 4, 5, 10, 1, 13, 7, 18, 15, 20 >>,
   EVROS |-> << 5, 2, 17, 15, 20 >>,
   EUBOEA |-> << 5, 20, 2, 15, 9, 1, 18 >>,
   EVRYTANIA |-> << 5, 20, 17, 20, 19, 1, 13, 9, 1, 18 >>,
   ZAKYNTHOS |-> << 6, 1, 10, 20, 13, 8, 15, 20 >>,
   ELIS |-> << 7, 11, 5, 9, 1, 18 >>,
   IMATHIA |-> << 7, 12, 1, 8, 9, 1, 18 >>,
   HERAKLION |-> << 7, 17, 1, 10, 11, 5, 9, 15, 20 >>,
   THESPROTIA |-> << 8, 5, 18, 16, 17, 24, 19, 9, 1, 18 >>,
   THESSALONIKI |-> << 8, 5, 18, 18, 1, 11, 15, 13, 9, 10, 7, 18 >>,
   IOANNINA |-> << 9, 24, 1, 13, 13, 9, 13, 24, 13 >>,
   KAVALA |-> << 10, 1, 2, 1, 11, 1, 18 >>,
   KARDITSA |-> << 10, 1, 17, 4, 9, 19, 18, 7, 18 >>,
   KASTORIA |-> << 10, 1, 18, 19, 15, 17, 9, 1, 18 >>,
   KERKYRA |-> << 10, 5, 17, 10, 20, 17, 1, 18 >>,
   CEPHALONIA |-> << 10, 5, 21, 1, 11, 11, 7, 13, 9, 1, 18 >>,
   KILKIS |-> << 10, 9, 11, 10, 9, 18 >>,
   KOZANI |-> << 10, 15, 6, 1, 13, 7, 18 >>,
   CORINTHIA |-> << 10, 15, 17, 9, 13, 8, 9, 1, 18 >>,
   CYCLADES |-> << 10, 20, 10, 11, 1, 4, 24, 13 >>,
   LACONIA |-> << 11, 1, 10, 24, 13, 9, 1, 18 >>,
   LARISSA |-> << 11, 1, 17, 9, 18, 7, 18 >>,
   LASITHI |-> << 11, 1, 18, 9, 8, 9, 15, 20 >>,
   LESBOS |-> << 11, 5, 18, 2, 15, 20 >>,
   LEFKADA |-> << 11, 5, 20, 10, 1, 4, 15, 18 >>,
   MAGNESIA |-> << 12, 1, 3, 13, 7, 18, 9, 1, 18 >>,
   MESSENIA |-> << 12, 5, 18, 18, 7, 13, 9, 1, 18 >>,
   XANTHI |-> << 14, 1, 13, 8, 7, 18 >>,
   PELLA |-> << 16, 5, 11, 11, 7, 18 >>,
   PIERIA |-> << 16, 9, 5, 17, 9, 1, 18 >>,
   PREVEZA |-> << 16, 17, 5, 2, 5, 6, 7, 18 >>,
   RETHYMNO |-> << 17, 5, 8, 20, 12, 13, 7, 18 >>,
   RHODOPE |-> << 17, 15, 4, 15, 16, 7, 18 >>,
   SAMOS |-> << 18, 1, 12, 15, 20 >>,
   SERRES |-> << 18, 5, 17, 17, 24, 13 >>,
   TRIKALA |-> << 19, 17, 9, 10, 1, 11, 24, 13 >>,
   PHTHIOTIS |-> << 21, 8, 9, 24, 19, 9, 4, 15, 18 >>,
   FLORINA |-> << 21, 11, 24, 17, 9, 13, 7, 18 >>,
   PHOCIS |-> << 21, 24, 10, 9, 4, 15, 18 >>,
   CHALKIDIKI |-> << 22, 1, 11, 10, 9, 4, 9, 10, 7, 18 >>,
   CHANIA |-> << 22, 1, 13, 9, 24, 13 >>,
   CHIOS |-> << 22, 9, 15, 20 >>]

\* String.prototype.localeCompare on two labels: negative, 0 or positive as
\* the first sorts before, with or after the second
localeCompare(a, b) ==
  LET shorter == IF Len(a) < Len(b) THEN Len(a) ELSE Len(b)
      differing == {i \in 1..shorter : a[i] # b[i]}
  IN IF differing = {}
     THEN (IF Len(a) < Len(b) THEN -1 ELSE IF Len(a) > Len(b) THEN 1 ELSE 0)
     ELSE LET first == CHOOSE i \in differing : \A j \in differing : i <= j
          IN IF a[first] < b[first] THEN -1 ELSE 1

\* the comparator initializePrefectureDataTable sorts with
compareLabels(a, b) == localeCompare(Prefecture[a], Prefecture[b])

\* Array.prototype.sort with that comparator: stable, an element stays
\* behind those before it that do not compare greater
RECURSIVE sort(_)
sort(array) ==
  IF Len(array) = 0 THEN << >>
  ELSE LET front == sort(SubSeq(array, 1, Len(array) - 1))
           last == array[Len(array)]
           before == {i \in 1..Len(front) : compareLabels(front[i], last) <= 0}
           at == IF before = {} THEN 0 ELSE CHOOSE i \in before : \A j \in before : j <= i
       IN SubSeq(front, 1, at) \o << last >> \o SubSeq(front, at + 1, Len(front))

\* the variant that leaves Object.keys(Prefecture) as declared
prefectureRowsAsDeclared == PrefectureKeys

\* the rows initializePrefectureDataTable appends: Object.keys(Prefecture)
\* sorted by label
prefectureRows == sort(PrefectureKeys)

(***************************************************************************)
(* The payloads of the API (api.js): what response.json() resolves to.     *)
(***************************************************************************)
Prices == 1..MaxPrice

Dates == 1..MaxDate

\* the records of at most n observations with a fuel_type of fuelTypes and a
\* price of prices
RecordsOver(fuelTypes, prices, n) ==
  [date : Dates, data : SeqsUpTo([fuel_type : fuelTypes, price : prices], n)]

\* DailySeries as the API documents it: the dates strictly increasing
StrictlyIncreasing(series) ==
  \A i \in 1..(Len(series) - 1) : series[i].date < series[i + 1].date

\* the fuel types the payloads of the page carry
PageFuelTypes == {"DIESEL", "GAS", "SUPER"}

\* the payloads of /data/daily/country the page is fed: every well-formed
\* series of at most MaxDays records of at most MaxPageObs observations
DailyCountryPayloads ==
  {series \in SeqsUpTo(RecordsOver(PageFuelTypes, Prices, MaxPageObs), MaxDays) :
     StrictlyIncreasing(series)}

\* the payloads the chart loader alone is fed: any fuel_type string of the
\* registry or outside it, repeated or not, and any dates
AlignFuelTypes == FuelTypeSet \cup {"KEROSENE"}

AlignPayloads == SeqsUpTo(RecordsOver(AlignFuelTypes, 1..MaxAlignPrice, MaxObs), MaxDays)

(***************************************************************************)
(* Number.prototype.toFixed and Array.prototype.find/at, as main.js uses   *)
(* them.                                                                   *)
(***************************************************************************)
\* the decimal digits of n, padded with zeros to `width` digits (width <= 3)
Pad(n, width) ==
  IF width = 3 /\ n < 10 THEN "00" \o ToString(n)
  ELSE IF (width = 3 /\ n < 100) \/ (width = 2 /\ n < 10) THEN "0" \o ToString(n)
  ELSE ToString(n)

Abs(n) == IF n < 0 THEN -n ELSE n

\* a variant of RoundedHundredths that drops the digits after the second
TruncatedHundredths(num, den) == (10000 * Abs(num)) \div den

\* (num / den).toFixed(2) scaled by 100: the integer n for which n / 100 is
\* closest to |num / den| * 100, the larger one on a tie (den > 0)
RoundedHundredths(num, den) == (20000 * Abs(num) + den) \div (2 * den)

\* the index of the first element of `data` whose fuel_type is fuelType, or 0
FindIndex(data, fuelType) ==
  IF \E i \in 1..Len(data) : data[i].fuel_type = fuelType
  THEN CHOOSE i \in 1..Len(data) :
         /\ data[i].fuel_type = fuelType
         /\ \A j \in 1..(i - 1) : data[j].fuel_type # fuelType
  ELSE 0

\* data.find(e => e['fuel_type'] === fuelType)?.price
FindPrice(data, fuelType) ==
  IF FindIndex(data, fuelType) = 0 THEN Undefined
  ELSE data[FindIndex(data, fuelType)].price

\* the truth value JavaScript gives a number or undefined
Truthy(v) == v # Undefined /\ v # 0

(***************************************************************************)
(* main.js: the formatters                                                 *)
(***************************************************************************)
formatPrice(price) ==
  IF Truthy(price)
  THEN ToString(price \div 1000) \o "." \o Pad(price % 1000, 3) \o "EUR"
  ELSE "-"

\* a variant of formatEvolution that divides by the previous value
formatEvolutionRelativeToPrevious(value, previousValue) ==
  IF Truthy(value) /\ Truthy(previousValue)
  THEN LET diff == value - previousValue
           n    == RoundedHundredths(diff, previousValue)
       IN [classList |-> IF diff > 0 THEN "text-danger"
                         ELSE IF diff < 0 THEN "text-success" ELSE "",
           innerHTML |-> (IF diff > 0 THEN "+" ELSE "")
                         \o (IF diff < 0 THEN "-" ELSE "")
                         \o ToString(n \div 100) \o "." \o Pad(n % 100, 2) \o "%"]
  ELSE [classList |-> "", innerHTML |-> "-"]

\* a variant of formatEvolution that tests the current price only
formatEvolutionIgnoringPrevious(value, previousValue) ==
  IF Truthy(value)
  THEN LET diff == value - previousValue
           n    == RoundedHundredths(diff, value)
       IN [classList |-> IF diff > 0 THEN "text-danger"
                         ELSE IF diff < 0 THEN "text-success" ELSE "",
           innerHTML |-> (IF diff > 0 THEN "+" ELSE "")
                         \o (IF diff < 0 THEN "-" ELSE "")
                         \o ToString(n \div 100) \o "." \o Pad(n % 100, 2) \o "%"]
  ELSE [classList |-> "", innerHTML |-> "-"]

\* the span formatEvolution builds: its class list and its innerHTML
formatEvolution(value, previousValue) ==
  IF Truthy(value) /\ Truthy(previousValue)
  THEN LET diff == value - previousValue
           n    == RoundedHundredths(diff, value)
       IN [classList |-> IF diff > 0 THEN "text-danger"
                         ELSE IF diff < 0 THEN "text-success" ELSE "",
           innerHTML |-> (IF diff > 0 THEN "+" ELSE "")
                         \o (IF diff < 0 THEN "-" ELSE "")
                         \o ToString(n \div 100) \o "." \o Pad(n % 100, 2) \o "%"]
  ELSE [classList |-> "", innerHTML |-> "-"]

\* evolution.outerHTML
outerHTML(span) ==
  IF span.classList = "" THEN "<span>" \o span.innerHTML \o "</span>"
  ELSE "<span class=\"" \o span.classList \o "\">" \o span.innerHTML \o "</span>"

(***************************************************************************)
(* The state of the page.                                                  *)
(***************************************************************************)
VARIABLES
  checked,                \* fuelTypeInput.checked of each fuel type's checkbox
  disabled,               \* fuelTypeInput.disabled of each fuel type's checkbox
  dailyCountryData,       \* Main.dailyCountryData (null, or the series)
  countryData,            \* Main.countryData (null, or the region payload)
  latestDate,             \* the text of the .latest-date spans (null: untouched)
  latestCountryDataTable, \* per fuel type: the row's price and evolution cells, its display
  chartData,              \* Main.dailyCountryDataChart.data
  prefectureDataTable,    \* the header cells' display, and each row's cells
  pending,                \* the number of fetches in flight, per request
  childOrder,             \* the fuel types of the elements built per fuel type, in DOM order
  datePicker,             \* the end date of the range the date picker holds (null: none yet)
  page,                   \* style.display of the #main and #error elements
  evolutionArgs,          \* (Evolution only) the arguments formatEvolution is given
  evolutionSpan           \* (Evolution only) the span it returned

vars ==
  << checked, disabled, dailyCountryData, countryData, latestDate,
     latestCountryDataTable, chartData, prefectureDataTable,
     pending, childOrder, datePicker, page, evolutionArgs, evolutionSpan >>

pageVars ==
  << checked, disabled, dailyCountryData, countryData, latestDate,
     latestCountryDataTable, chartData, prefectureDataTable,
     pending, childOrder, datePicker, page >>

\* style.display of an element
Display(shown) == IF shown THEN "" ELSE "none"

\* onSuccess(): the main content shown, the error element hidden and emptied
onSuccess == [main |-> Display(TRUE), error |-> Display(FALSE), innerHTML |-> ""]

\* onError(error): the main content hidden, the error element shown with the
\* error as its text
onError(error) == [main |-> Display(FALSE), error |-> Display(TRUE), innerHTML |-> error]

(***************************************************************************)
(* main.js: the loaders                                                    *)
(***************************************************************************)
\* the Set loadFuelTypesSelector collects from the series
availableFuelTypes(data) ==
  UNION {{data[i].data[j].fuel_type : j \in 1..Len(data[i].data)} : i \in 1..Len(data)}

\* a variant of loadFuelTypesSelector that collects the fuel types of the
\* latest record only
loadFuelTypesSelectorLatestOnly(data, chk, dis) ==
  LET latest == IF Len(data) = 0 THEN {} ELSE availableFuelTypes(<< data[Len(data)] >>)
  IN [checked  |-> [f \in FuelTypeSet |-> IF f \in latest THEN chk[f] ELSE FALSE],
      disabled |-> [f \in FuelTypeSet |-> f \notin latest]]

\* a variant of loadFuelTypesSelector that disables without unchecking
loadFuelTypesSelectorKeepingChecked(data, chk, dis) ==
  [checked  |-> chk,
   disabled |-> [f \in FuelTypeSet |-> f \notin availableFuelTypes(data)]]

\* a variant of loadFuelTypesSelector that puts the checkboxes of the
\* available fuel types back to their defaults
loadFuelTypesSelectorResetting(data, chk, dis) ==
  [checked  |-> [f \in FuelTypeSet |->
                   f \in availableFuelTypes(data) /\ ~FuelType[f].defaultUnselected],
   disabled |-> [f \in FuelTypeSet |-> f \notin availableFuelTypes(data)]]

\* a variant of loadFuelTypesSelector that checks again the checkbox it
\* enables again
loadFuelTypesSelectorRestoring(data, chk, dis) ==
  [checked  |-> [f \in FuelTypeSet |->
                   IF f \in availableFuelTypes(data) THEN chk[f] \/ dis[f] ELSE FALSE],
   disabled |-> [f \in FuelTypeSet |-> f \notin availableFuelTypes(data)]]

\* the checkboxes after loadFuelTypesSelector
loadFuelTypesSelector(data, chk, dis) ==
  [checked  |-> [f \in FuelTypeSet |->
                   IF f \in availableFuelTypes(data) THEN chk[f] ELSE FALSE],
   disabled |-> [f \in FuelTypeSet |-> f \notin availableFuelTypes(data)]]

\* loadLatestCountryDataTable dereferences at(-1) of an empty series
loadLatestCountryDataTableThrows(data) == Len(data) = 0

\* the table after loadLatestCountryDataTable (for a series that is not empty)
loadLatestCountryDataTable(data, table) ==
  LET latestData == data[Len(data)].data
      price(f) == FindPrice(latestData, f)
      previousPrice(f) ==
        IF Len(data) < 2 THEN Undefined ELSE FindPrice(data[Len(data) - 1].data, f)
  IN [f \in FuelTypeSet |->
        [table[f] EXCEPT !.price = formatPrice(price(f)),
                         !.evolution = outerHTML(formatEvolution(price(f), previousPrice(f)))]]

(***************************************************************************)
(* index.js: the older chart loader                                        *)
(***************************************************************************)
\* the null displayDailyCountryChart pre-fills the price arrays with
NullPrice == -2

\* the index of the last element of `data` whose fuel_type is fuelType, or 0
FindLastIndex(data, fuelType) ==
  IF \E i \in 1..Len(data) : data[i].fuel_type = fuelType
  THEN CHOOSE i \in 1..Len(data) :
         /\ data[i].fuel_type = fuelType
         /\ \A j \in (i + 1)..Len(data) : data[j].fuel_type # fuelType
  ELSE 0

\* prices[result.fuel_type] is undefined for a fuel_type outside FuelType and
\* reading its length throws
displayDailyCountryChartThrows(data) ==
  \E i \in 1..Len(data) : \E j \in 1..Len(data[i].data) :
    data[i].data[j].fuel_type \notin FuelTypeSet

\* a variant of displayDailyCountryChart that leaves the price of the
\* record before where an observation is missing
displayDailyCountryChartCarrying(data) ==
  [labels   |-> [i \in 1..Len(data) |-> data[i].date],
   datasets |-> [k \in 1..Len(FuelTypeKeys) |->
                   [label  |-> FuelType[FuelTypeKeys[k]].label,
                    hidden |-> FuelTypeKeys[k] = "SUPER",
                    data   |-> [i \in 1..Len(data) |->
                       LET seen == {h \in 1..i : FindLastIndex(data[h].data, FuelTypeKeys[k]) # 0}
                       IN IF seen = {} THEN NullPrice
                          ELSE LET h == CHOOSE h \in seen : \A g \in seen : g <= h
                               IN data[h].data[FindLastIndex(data[h].data, FuelTypeKeys[k])].price]]]]

\* the chart's data after displayDailyCountryChart (when it does not throw):
\* per record a null is pushed for every fuel type and then overwritten by
\* each observation of the record in turn, so the last one of a fuel type
\* stays
displayDailyCountryChart(data) ==
  [labels   |-> [i \in 1..Len(data) |-> data[i].date],
   datasets |-> [k \in 1..Len(FuelTypeKeys) |->
                   [label  |-> FuelType[FuelTypeKeys[k]].label,
                    hidden |-> FuelTypeKeys[k] = "SUPER",
                    data   |-> [i \in 1..Len(data) |->
                       IF FindLastIndex(data[i].data, FuelTypeKeys[k]) = 0 THEN NullPrice
                       ELSE data[i].data[FindLastIndex(data[i].data, FuelTypeKeys[k])].price]]]]

\* a variant of loadDailyCountryDataChart that pushes onto the labels and
\* datasets the chart already has
loadDailyCountryDataChartAppending(data, chk) ==
  [labels   |-> chartData.labels \o [i \in 1..Len(data) |-> data[i].date],
   datasets |-> chartData.datasets \o
                [k \in 1..Len(FuelTypeKeys) |->
                   [label  |-> FuelType[FuelTypeKeys[k]].label,
                    hidden |-> ~chk[FuelTypeKeys[k]],
                    data   |-> [i \in 1..Len(data) |->
                                  FindPrice(data[i].data, FuelTypeKeys[k])]]]]

\* a variant of loadDailyCountryDataChart that lists the datasets of the
\* checked fuel types before the others
loadDailyCountryDataChartCheckedFirst(data, chk) ==
  LET keys == SelectSeq(FuelTypeKeys, LAMBDA f : chk[f])
                \o SelectSeq(FuelTypeKeys, LAMBDA f : ~chk[f])
  IN [labels   |-> [i \in 1..Len(data) |-> data[i].date],
      datasets |-> [k \in 1..Len(keys) |->
                      [label  |-> FuelType[keys[k]].label,
                       hidden |-> ~chk[keys[k]],
                       data   |-> [i \in 1..Len(data) |->
                                     FindPrice(data[i].data, keys[k])]]]]

\* a variant of loadDailyCountryDataChart that gives the k-th fuel type the
\* k-th observation of each record
loadDailyCountryDataChartByPosition(data, chk) ==
  [labels   |-> [i \in 1..Len(data) |-> data[i].date],
   datasets |-> [k \in 1..Len(FuelTypeKeys) |->
                   [label  |-> FuelType[FuelTypeKeys[k]].label,
                    hidden |-> ~chk[FuelTypeKeys[k]],
                    data   |-> [i \in 1..Len(data) |->
                                  IF k <= Len(data[i].data)
                                  THEN data[i].data[k].price ELSE Undefined]]]]

\* a variant of loadDailyCountryDataChart that labels only the dates that
\* have observations
loadDailyCountryDataChartSkippingEmpty(data, chk) ==
  LET observed == SelectSeq(data, LAMBDA row : Len(row.data) > 0)
  IN [labels   |-> [i \in 1..Len(observed) |-> observed[i].date],
      datasets |-> [k \in 1..Len(FuelTypeKeys) |->
                      [label  |-> FuelType[FuelTypeKeys[k]].label,
                       hidden |-> ~chk[FuelTypeKeys[k]],
                       data   |-> [i \in 1..Len(data) |->
                                     FindPrice(data[i].data, FuelTypeKeys[k])]]]]

\* the chart's data after loadDailyCountryDataChart
loadDailyCountryDataChart(data, chk) ==
  [labels   |-> [i \in 1..Len(data) |-> data[i].date],
   datasets |-> [k \in 1..Len(FuelTypeKeys) |->
                   [label  |-> FuelType[FuelTypeKeys[k]].label,
                    hidden |-> ~chk[FuelTypeKeys[k]],
                    data   |-> [i \in 1..Len(data) |->
                                  FindPrice(data[i].data, FuelTypeKeys[k])]]]]

\* fuelTypeSelectionChanged, the rows of the latest country data table
fuelTypeSelectionChangedRows(table, chk) ==
  [f \in FuelTypeSet |-> [table[f] EXCEPT !.display = Display(chk[f])]]

\* fuelTypeSelectionChanged, the elements of class fuelType of the prefecture
\* table: the header cell and the cell of every row
fuelTypeSelectionChangedColumns(table, chk) ==
  [header |-> [f \in FuelTypeSet |-> Display(chk[f])],
   rows   |-> [p \in PrefectureSet |-> [f \in FuelTypeSet |->
                 [table.rows[p][f] EXCEPT !.display = Display(chk[f])]]]]

\* fuelTypeSelectionChanged, the chart: for each fuel type the first dataset
\* with its label, when there is one, gets hidden = !checked; the chart is
\* then redrawn from its data by update()
fuelTypeSelectionChangedDatasets(chart, chk) ==
  [chart EXCEPT !.datasets =
     [k \in 1..Len(chart.datasets) |->
        LET dataset == chart.datasets[k]
            keys == {f \in FuelTypeSet : FuelType[f].label = dataset.label}
        IN IF keys # {} /\ \A j \in 1..(k - 1) : chart.datasets[j].label # dataset.label
           THEN [dataset EXCEPT !.hidden = ~chk[CHOOSE f \in keys : TRUE]]
           ELSE dataset]]

\* the entry of the payload's prefectures whose prefecture is p, or 0
FindPrefecture(prefectures, p) ==
  IF \E i \in 1..Len(prefectures) : prefectures[i].prefecture = p
  THEN CHOOSE i \in 1..Len(prefectures) :
         /\ prefectures[i].prefecture = p
         /\ \A j \in 1..(i - 1) : prefectures[j].prefecture # p
  ELSE 0

\* the position in Object.keys(Prefecture) at which loadPrefectureDataTable
\* throws (prefectureData is undefined), or 0 when it completes
loadPrefectureDataTableThrowsAt(data) ==
  IF \E k \in 1..Len(PrefectureKeys) : FindPrefecture(data.prefectures, PrefectureKeys[k]) = 0
  THEN CHOOSE k \in 1..Len(PrefectureKeys) :
         /\ FindPrefecture(data.prefectures, PrefectureKeys[k]) = 0
         /\ \A j \in 1..(k - 1) : FindPrefecture(data.prefectures, PrefectureKeys[j]) # 0
  ELSE 0

\* a variant of loadPrefectureDataTable that passes over a prefecture the
\* payload has no record of and goes on with the next
loadPrefectureDataTableSkipping(data, table) ==
  LET prefectureData(p) == data.prefectures[FindPrefecture(data.prefectures, p)].data
  IN [table EXCEPT !.rows =
        [p \in PrefectureSet |->
           IF FindPrefecture(data.prefectures, p) # 0
           THEN [f \in FuelTypeSet |->
                   [table.rows[p][f] EXCEPT
                      !.textContent = formatPrice(FindPrice(prefectureData(p), f))]]
           ELSE table.rows[p]]]

\* the prefecture table after loadPrefectureDataTable, which fills the rows in
\* the order of Object.keys(Prefecture) up to the one at which it throws
loadPrefectureDataTable(data, table) ==
  LET stop == loadPrefectureDataTableThrowsAt(data)
      filled == {PrefectureKeys[k] : k \in
                   IF stop = 0 THEN 1..Len(PrefectureKeys) ELSE 1..(stop - 1)}
      prefectureData(p) == data.prefectures[FindPrefecture(data.prefectures, p)].data
  IN [table EXCEPT !.rows =
        [p \in PrefectureSet |->
           IF p \in filled
           THEN [f \in FuelTypeSet |->
                   [table.rows[p][f] EXCEPT
                      !.textContent = formatPrice(FindPrice(prefectureData(p), f))]]
           ELSE table.rows[p]]]

(***************************************************************************)
(* The payloads of /data/country/<date>                                    *)
(***************************************************************************)
\* the data of one prefecture: at most MaxRegionObs observations
PrefectureData == SeqsUpTo([fuel_type : PageFuelTypes, price : Prices], MaxRegionObs)

\* a prefectures array with at most one record per prefecture, in the order
\* of the registry; `present` are the prefectures it has a record of
PrefecturesOf(present, dataOf) ==
  LET keys == SelectSeq(PrefectureKeys, LAMBDA p : p \in present)
  IN [i \in 1..Len(keys) |-> [prefecture |-> keys[i], data |-> dataOf[keys[i]]]]

\* the payloads of /data/country/<date> the page is fed; main.js never reads
\* the country aggregate, which is left empty
RegionPayloads ==
  {[country |-> << >>, prefectures |-> PrefecturesOf(present, dataOf)] :
     <<present, dataOf>> \in
       {<<present, dataOf>> \in (SUBSET PrefectureSet) \X [PrefectureSet -> PrefectureData] :
          \A p \in PrefectureSet \ present : dataOf[p] = << >>}}

(***************************************************************************)
(* api.js: the requests                                                    *)
(***************************************************************************)
\* API.dailyCountryData(startDate, endDate)
DailyCountryDataRequest(endDate) == [api |-> "dailyCountryData", endDate |-> endDate]

\* API.countryData(date)
CountryDataRequest(date) == [api |-> "countryData", endDate |-> date]

Requests == [api : {"dailyCountryData", "countryData"}, endDate : Dates]

RECURSIVE SumOver(_, _)
SumOver(S, count) ==
  IF S = {} THEN 0
  ELSE LET x == CHOOSE y \in S : TRUE IN count[x] + SumOver(S \ {x}, count)

(***************************************************************************)
(* The page after the DOMContentLoaded listener of the constructor has     *)
(* built the selector, the chart and the two tables.                       *)
(***************************************************************************)
\* a variant of initializeFuelTypeSelector that ignores defaultUnselected
initializeFuelTypeSelectorAllChecked ==
  [checked  |-> [f \in FuelTypeSet |-> TRUE],
   disabled |-> [f \in FuelTypeSet |-> FALSE]]

initializeFuelTypeSelector ==
  [checked  |-> [f \in FuelTypeSet |-> ~FuelType[f].defaultUnselected],
   disabled |-> [f \in FuelTypeSet |-> FALSE]]

initializeDailyCountryDataChart == [labels |-> << >>, datasets |-> << >>]

initializeLatestCountryDataTable ==
  [f \in FuelTypeSet |-> [price |-> "&nbsp;", evolution |-> "&nbsp;", display |-> ""]]

initializePrefectureDataTable ==
  [header |-> [f \in FuelTypeSet |-> ""],
   rows   |-> [p \in PrefectureSet |-> [f \in FuelTypeSet |->
                 [textContent |-> "", display |-> ""]]]]

\* the order in which the elements built per fuel type are appended: the
\* checkboxes of the selector, the rows of the latest country data table, the
\* header cells of the prefecture table and the cells of each of its rows
appendedPerFuelType == [k \in 1..Len(FuelTypeKeys) |-> FuelTypeKeys[k]]

initializeChildOrder ==
  [fuelTypeSelector       |-> appendedPerFuelType,
   latestCountryDataTable |-> appendedPerFuelType,
   prefectureDataHeader   |-> appendedPerFuelType,
   prefectureDataCells    |-> [p \in PrefectureSet |-> appendedPerFuelType],
   prefectureDataRows     |-> prefectureRows]

InitPage ==
  /\ checked = initializeFuelTypeSelector.checked
  /\ childOrder = initializeChildOrder
  /\ disabled = initializeFuelTypeSelector.disabled
  /\ dailyCountryData = Null
  /\ countryData = Null
  /\ latestDate = Null
  /\ latestCountryDataTable = initializeLatestCountryDataTable
  /\ chartData = initializeDailyCountryDataChart
  /\ prefectureDataTable = initializePrefectureDataTable
  /\ pending = [r \in Requests |-> 0]
  /\ datePicker = Null
  /\ page = onSuccess

Init ==
  /\ InitPage
  /\ evolutionArgs = << >>
  /\ evolutionSpan = << >>

(***************************************************************************)
(* The operations.                                                         *)
(***************************************************************************)
\* the fetches in flight, whatever they are for
InFlight == SumOver(Requests, pending)

\* the dates for which a fetch of `api` is in flight
Awaited(api) == {date \in Dates : pending[[api |-> api, endDate |-> date]] > 0}

Sent(request) == [pending EXCEPT ![request] = @ + 1]

Received(request) == [pending EXCEPT ![request] = @ - 1]

\* dateRangeSelected(startDate, endDate), up to the fetch: the date picker's
\* 'select' event, or the constructor's first call.  Only endDate reaches the
\* handlers; startDate goes into the request's URL.
dateRangeSelected(endDate) ==
  /\ InFlight < MaxInFlight
  /\ pending' = Sent(DailyCountryDataRequest(endDate))
  /\ datePicker' = Some(endDate)
  /\ UNCHANGED << checked, disabled, dailyCountryData, countryData, latestDate,
                  latestCountryDataTable, chartData, prefectureDataTable,
                  childOrder, page, evolutionArgs, evolutionSpan >>

\* a variant of dailyCountryDataResolved whose second then() callback runs
\* whatever became of the first: the region payload is fetched also when
\* loading the series threw
dailyCountryDataResolvedThenAlways(endDate, data) ==
  LET selector == loadFuelTypesSelector(data, checked, disabled)
      received == Received(DailyCountryDataRequest(endDate))
  IN /\ pending[DailyCountryDataRequest(endDate)] > 0
     /\ dailyCountryData' = Some(data)
     /\ latestDate' = Some(endDate)
     /\ checked' = selector.checked
     /\ disabled' = selector.disabled
     /\ pending' = [received EXCEPT ![CountryDataRequest(endDate)] = @ + 1]
     /\ IF loadLatestCountryDataTableThrows(data)
        THEN UNCHANGED << latestCountryDataTable, chartData, prefectureDataTable >>
        ELSE /\ latestCountryDataTable' =
                  fuelTypeSelectionChangedRows(
                    loadLatestCountryDataTable(data, latestCountryDataTable),
                    selector.checked)
             /\ prefectureDataTable' =
                  fuelTypeSelectionChangedColumns(prefectureDataTable, selector.checked)
             /\ chartData' =
                  fuelTypeSelectionChangedDatasets(
                    loadDailyCountryDataChart(data, selector.checked), selector.checked)
     /\ page' = onSuccess
     /\ UNCHANGED << countryData, childOrder, datePicker, evolutionArgs, evolutionSpan >>

\* the two then() callbacks of dateRangeSelected for the resolved series
\* `data` of the request for endDate: the first stores and loads; when it
\* throws, the second (the fetch of the region payload) does not run
dailyCountryDataResolved(endDate, data) ==
  LET selector == loadFuelTypesSelector(data, checked, disabled)
      received == Received(DailyCountryDataRequest(endDate))
  IN /\ pending[DailyCountryDataRequest(endDate)] > 0
     /\ dailyCountryData' = Some(data)
     /\ latestDate' = Some(endDate)
     /\ checked' = selector.checked
     /\ disabled' = selector.disabled
     /\ IF loadLatestCountryDataTableThrows(data)
        THEN /\ pending' = received
             /\ UNCHANGED << latestCountryDataTable, chartData,
                             prefectureDataTable >>
        ELSE /\ latestCountryDataTable' =
                  fuelTypeSelectionChangedRows(
                    loadLatestCountryDataTable(data, latestCountryDataTable),
                    selector.checked)
             /\ prefectureDataTable' =
                  fuelTypeSelectionChangedColumns(prefectureDataTable, selector.checked)
             /\ chartData' =
                  fuelTypeSelectionChangedDatasets(
                    loadDailyCountryDataChart(data, selector.checked), selector.checked)
             /\ pending' = [received EXCEPT ![CountryDataRequest(endDate)] = @ + 1]
     /\ page' = onSuccess
     /\ UNCHANGED << countryData, childOrder, datePicker, evolutionArgs, evolutionSpan >>

\* the then() callback of the region fetch for the resolved payload `data`
countryDataResolved(endDate, data) ==
  /\ pending[CountryDataRequest(endDate)] > 0
  /\ countryData' = Some(data)
  /\ prefectureDataTable' = loadPrefectureDataTable(data, prefectureDataTable)
  /\ pending' = Received(CountryDataRequest(endDate))
  /\ page' = onSuccess
  /\ UNCHANGED << checked, disabled, dailyCountryData, latestDate,
                  latestCountryDataTable, chartData,
                  childOrder, datePicker, evolutionArgs, evolutionSpan >>

\* what a fetch is rejected with
FetchErrors == {"TypeError: Failed to fetch"}

\* a variant of dailyCountryDataRejected that forgets the stored series
dailyCountryDataRejectedClearing(endDate, error) ==
  /\ pending[DailyCountryDataRequest(endDate)] > 0
  /\ pending' = Received(DailyCountryDataRequest(endDate))
  /\ page' = onError(error)
  /\ dailyCountryData' = Null
  /\ UNCHANGED << checked, disabled, countryData, latestDate,
                  latestCountryDataTable, chartData, prefectureDataTable,
                  childOrder, datePicker, evolutionArgs, evolutionSpan >>

\* the catch() of the series fetch: the fetch for endDate is rejected
dailyCountryDataRejected(endDate, error) ==
  /\ pending[DailyCountryDataRequest(endDate)] > 0
  /\ pending' = Received(DailyCountryDataRequest(endDate))
  /\ page' = onError(error)
  /\ UNCHANGED << checked, disabled, dailyCountryData, countryData, latestDate,
                  latestCountryDataTable, chartData, prefectureDataTable,
                  childOrder, datePicker, evolutionArgs, evolutionSpan >>

\* the catch() of the region fetch: the fetch for endDate is rejected
countryDataRejected(endDate, error) ==
  /\ pending[CountryDataRequest(endDate)] > 0
  /\ pending' = Received(CountryDataRequest(endDate))
  /\ page' = onError(error)
  /\ UNCHANGED << checked, disabled, dailyCountryData, countryData, latestDate,
                  latestCountryDataTable, chartData, prefectureDataTable,
                  childOrder, datePicker, evolutionArgs, evolutionSpan >>

\* a variant of fuelTypeInputClicked in which the checkboxes behave as radio
\* buttons: checking one unchecks the others
fuelTypeInputClickedExclusive(f) ==
  IF disabled[f]
  THEN UNCHANGED vars
  ELSE LET chk == [g \in FuelTypeSet |-> IF g = f THEN ~checked[f] ELSE FALSE]
       IN /\ checked' = chk
          /\ latestCountryDataTable' =
               fuelTypeSelectionChangedRows(latestCountryDataTable, chk)
          /\ prefectureDataTable' =
               fuelTypeSelectionChangedColumns(prefectureDataTable, chk)
          /\ chartData' = fuelTypeSelectionChangedDatasets(chartData, chk)
          /\ UNCHANGED << disabled, dailyCountryData, countryData, latestDate,
                          pending, childOrder, datePicker, page,
                          evolutionArgs, evolutionSpan >>

\* a variant of fuelTypeInputClicked in which a disabled checkbox flips too
fuelTypeInputClickedAnyway(f) ==
  LET chk == [checked EXCEPT ![f] = ~checked[f]]
  IN /\ checked' = chk
     /\ latestCountryDataTable' =
          fuelTypeSelectionChangedRows(latestCountryDataTable, chk)
     /\ prefectureDataTable' =
          fuelTypeSelectionChangedColumns(prefectureDataTable, chk)
     /\ chartData' = fuelTypeSelectionChangedDatasets(chartData, chk)
     /\ UNCHANGED << disabled, dailyCountryData, countryData, latestDate,
                     pending, childOrder, datePicker, page,
                     evolutionArgs, evolutionSpan >>

\* the user clicks the checkbox of fuel type f: a disabled checkbox does not
\* change and fires no 'input' event; an enabled one flips and its listener
\* calls fuelTypeSelectionChanged
fuelTypeInputClicked(f) ==
  IF disabled[f]
  THEN UNCHANGED vars
  ELSE LET chk == [checked EXCEPT ![f] = ~checked[f]]
       IN /\ checked' = chk
          /\ latestCountryDataTable' =
               fuelTypeSelectionChangedRows(latestCountryDataTable, chk)
          /\ prefectureDataTable' =
               fuelTypeSelectionChangedColumns(prefectureDataTable, chk)
          /\ chartData' = fuelTypeSelectionChangedDatasets(chartData, chk)
          /\ UNCHANGED << disabled, dailyCountryData, countryData, latestDate,
                          pending, childOrder, datePicker, page,
                          evolutionArgs, evolutionSpan >>

Next ==
  \/ \E endDate \in Dates : dateRangeSelected(endDate)
  \/ \E endDate \in Awaited("dailyCountryData"), data \in DailyCountryPayloads :
       dailyCountryDataResolved(endDate, data)
  \/ \E endDate \in Awaited("countryData"), data \in RegionPayloads :
       countryDataResolved(endDate, data)
  \/ \E f \in FuelTypeSet : fuelTypeInputClicked(f)

Spec == Init /\ [][Next]_vars

(***************************************************************************)
(* The chart loader alone: the page's first request resolves to any series  *)
(* of AlignPayloads.                                                       *)
(***************************************************************************)
InitAlign ==
  /\ checked = initializeFuelTypeSelector.checked
  /\ disabled = initializeFuelTypeSelector.disabled
  /\ dailyCountryData = Null
  /\ countryData = Null
  /\ latestDate = Null
  /\ latestCountryDataTable = initializeLatestCountryDataTable
  /\ chartData = initializeDailyCountryDataChart
  /\ prefectureDataTable = initializePrefectureDataTable
  /\ pending = [r \in Requests |-> IF r = DailyCountryDataRequest(MaxDate) THEN 1 ELSE 0]
  /\ childOrder = initializeChildOrder
  /\ datePicker = Some(MaxDate)
  /\ page = onSuccess
  /\ evolutionArgs = << >>
  /\ evolutionSpan = << >>

NextAlign ==
  \E endDate \in Awaited("dailyCountryData"), data \in AlignPayloads :
    dailyCountryDataResolved(endDate, data)

SpecAlign == InitAlign /\ [][NextAlign]_vars

(***************************************************************************)
(* formatEvolution alone, on every pair of a price 0 .. MaxEvolutionPrice,  *)
(* a price of the worked example (1.700 and 1.750 euro) or undefined.      *)
(***************************************************************************)
ExamplePrices == {1700, 1750}

EvolutionPrices == (0..MaxEvolutionPrice) \cup ExamplePrices \cup {Undefined}

InitEvolution ==
  /\ InitPage
  /\ evolutionArgs \in EvolutionPrices \X EvolutionPrices
  /\ evolutionSpan = << >>

formatEvolutionCalled ==
  /\ evolutionSpan = << >>
  /\ evolutionSpan' = Some(formatEvolution(evolutionArgs[1], evolutionArgs[2]))
  /\ UNCHANGED << pageVars, evolutionArgs >>

NextEvolution == formatEvolutionCalled

SpecEvolution == InitEvolution /\ [][NextEvolution]_vars

(***************************************************************************)
(* What the claims speak of.                                               *)
(***************************************************************************)
\* the series the page holds (when dailyCountryData is not null)
Series == dailyCountryData[1]

\* the record has an observation whose fuel_type is f
HasObservation(record, f) ==
  \E j \in 1..Len(record.data) : record.data[j].fuel_type = f

\* some record of the series has an observation whose fuel_type is f
HasData(series, f) ==
  \E i \in 1..Len(series) : HasObservation(series[i], f)

\* the prices the record gives for f
PricesOf(record, f) ==
  {record.data[j].price : j \in {j \in 1..Len(record.data) : record.data[j].fuel_type = f}}

\* the two flags of the spec's VisibilityState
selected(f) == checked[f]

enabled(f) == ~disabled[f]

isVisible(f) == selected(f) /\ enabled(f)

\* a step that handles a resolved series: the series it stored is the one
\* dailyCountryData holds afterwards
SeriesLoaded ==
  /\ dailyCountryData' # Null
  /\ \E endDate \in Dates : dailyCountryDataResolved(endDate, dailyCountryData'[1])

\* what the aligner made of the stored series: the chart's data; the handler
\* throws on the empty series before it reaches the chart, and for that
\* series it is what loadDailyCountryDataChart returns
Aligned ==
  IF Len(Series) = 0 THEN loadDailyCountryDataChart(Series, checked) ELSE chartData

\* the position of fuel type f's dataset among the aligned datasets, or 0
DatasetOf(f) ==
  IF \E k \in 1..Len(Aligned.datasets) : Aligned.datasets[k].label = FuelType[f].label
  THEN CHOOSE k \in 1..Len(Aligned.datasets) : Aligned.datasets[k].label = FuelType[f].label
  ELSE 0

(***************************************************************************)
(* C1.  Presence correspondence: whatever series the chart loader is       *)
(* given, every fuel type f of the registry has a dataset, and its value   *)
(* at position i is a price, one the record at position i gives for f,     *)
(* exactly when that record has an observation whose fuel_type is f;       *)
(* otherwise it is undefined.                                              *)
(***************************************************************************)
C1_PresenceCorrespondence ==
  dailyCountryData # Null =>
    \A f \in FuelTypeSet :
      /\ DatasetOf(f) # 0
      /\ \A i \in 1..Len(Series) :
           LET value == Aligned.datasets[DatasetOf(f)].data[i]
           IN IF HasObservation(Series[i], f)
              THEN value \in PricesOf(Series[i], f)
              ELSE value = Undefined

\* a two-record series in which DIESEL is observed on the first date only
C1_Witness ==
  /\ dailyCountryData # Null
  /\ Len(Series) = 2
  /\ HasObservation(Series[1], "DIESEL")
  /\ ~HasObservation(Series[2], "DIESEL")
  /\ HasObservation(Series[2], "KEROSENE")
  /\ chartData.datasets[DatasetOf("DIESEL")].data[1] # Undefined
  /\ chartData.datasets[DatasetOf("DIESEL")].data[2] = Undefined

(***************************************************************************)
(* C2.  Length invariant: the date axis of the chart is the dates of the   *)
(* input series, in the same order, and every fuel type's data array has   *)
(* the length of the series.                                               *)
(***************************************************************************)
C2_LengthInvariant ==
  dailyCountryData # Null =>
    /\ Len(Aligned.labels) = Len(Series)
    /\ \A i \in 1..Len(Series) : Aligned.labels[i] = Series[i].date
    /\ Len(Aligned.datasets) = Len(FuelTypeKeys)
    /\ \A k \in 1..Len(Aligned.datasets) : Len(Aligned.datasets[k].data) = Len(Series)

\* a series of two dates out of order, one of them without observations
C2_Witness ==
  /\ dailyCountryData # Null
  /\ Len(Series) = 2
  /\ Series[1].date > Series[2].date
  /\ Len(Series[1].data) = 0
  /\ chartData.labels = << Series[1].date, Series[2].date >>

(***************************************************************************)
(* C3.  Once a series is loaded, a fuel type of the registry is enabled    *)
(* exactly when some record of the series the page holds has an            *)
(* observation for it: the flag is a function of that series alone,        *)
(* whatever was loaded or toggled before.                                  *)
(***************************************************************************)
C3_EnabledIffData ==
  dailyCountryData # Null =>
    \A f \in FuelTypeSet : enabled(f) <=> HasData(Series, f)

\* GAS is observed on the first of two dates only and is enabled; DIESEL has
\* no observation and is disabled
C3_Witness ==
  /\ dailyCountryData # Null
  /\ Len(Series) = 2
  /\ HasObservation(Series[1], "GAS")
  /\ ~HasObservation(Series[2], "GAS")
  /\ enabled("GAS")
  /\ ~enabled("DIESEL")

(***************************************************************************)
(* C4.  From the first completed load on, no fuel type is both disabled    *)
(* and selected.                                                           *)
(***************************************************************************)
C4_DisabledNotSelected ==
  dailyCountryData # Null =>
    \A f \in FuelTypeSet : ~enabled(f) => ~selected(f)

\* a fuel type selected by default that a load has disabled, next to one the
\* user has unselected
C4_Witness ==
  /\ dailyCountryData # Null
  /\ ~enabled("UNLEADED_95")
  /\ ~selected("UNLEADED_95")
  /\ enabled("DIESEL")
  /\ ~selected("DIESEL")

(***************************************************************************)
(* C5.  A load leaves the selected flag of every fuel type it enables, that *)
(* is of every fuel type with data in the new series, as it was            *)
(* immediately before the load.                                            *)
(***************************************************************************)
C5_SelectionSurvivesLoad ==
  [][SeriesLoaded =>
       \A f \in FuelTypeSet :
         (enabled(f)' \/ HasData(dailyCountryData'[1], f)) => selected(f)' = selected(f)]_vars

\* every response is in; DIESEL is enabled and the user has unselected it,
\* SUPER is enabled and the user has selected it
C5_Witness ==
  /\ dailyCountryData # Null
  /\ HasData(Series, "DIESEL")
  /\ ~selected("DIESEL")
  /\ HasData(Series, "SUPER")
  /\ selected("SUPER")
  /\ InFlight = 0
  /\ countryData # Null

(***************************************************************************)
(* C6.  The first load from the initial state, with the checkboxes as they *)
(* were built: enabled is true iff the series has data for the fuel type,  *)
(* and selected is true iff it is enabled and not defaultUnselected.  A    *)
(* series of DIESEL and GAS only leaves UNLEADED_95 disabled and           *)
(* unselected, DIESEL enabled and selected, GAS enabled and selected as    *)
(* its default says, SUPER unselected.                                     *)
(***************************************************************************)
C6_FirstLoad ==
  [][(/\ dailyCountryData = Null
      /\ checked = initializeFuelTypeSelector.checked
      /\ disabled = initializeFuelTypeSelector.disabled
      /\ SeriesLoaded) =>
       /\ \A f \in FuelTypeSet :
            /\ enabled(f)' <=> HasData(dailyCountryData'[1], f)
            /\ selected(f)' <=> (enabled(f)' /\ ~FuelType[f].defaultUnselected)
       /\ (\A f \in FuelTypeSet :
             HasData(dailyCountryData'[1], f) <=> f \in {"DIESEL", "GAS"}) =>
            /\ ~enabled("UNLEADED_95")' /\ ~selected("UNLEADED_95")'
            /\ enabled("DIESEL")' /\ selected("DIESEL")'
            /\ enabled("GAS")' /\ (selected("GAS")' <=> ~FuelType["GAS"].defaultUnselected)
            /\ ~selected("SUPER")']_vars

\* the series of DIESEL and GAS only is loaded, nothing else has happened yet
C6_Witness ==
  /\ dailyCountryData # Null
  /\ \A f \in FuelTypeSet : HasData(Series, f) <=> f \in {"DIESEL", "GAS"}
  /\ countryData = Null
  /\ InFlight = 1
  /\ \A f \in FuelTypeSet : selected(f) <=> f \in {"DIESEL", "GAS"}
  /\ ~enabled("UNLEADED_95")

(***************************************************************************)
(* C7.  A click on the checkbox of an enabled fuel type f flips selected(f) *)
(* and changes no other selected flag, no enabled flag and not the loaded   *)
(* series.                                                                 *)
(***************************************************************************)
C7_ToggleFrame ==
  [][\A f \in FuelTypeSet :
       (enabled(f) /\ fuelTypeInputClicked(f)) =>
         /\ checked' = [checked EXCEPT ![f] = ~checked[f]]
         /\ disabled' = disabled
         /\ dailyCountryData' = dailyCountryData]_vars

\* two fuel types toggled while the first series is still in flight
C7_Witness ==
  /\ dailyCountryData = Null
  /\ InFlight = 1
  /\ ~selected("UNLEADED_95")
  /\ selected("SUPER")
  /\ selected("GAS")

DatasetShown(f) ==
  \E k \in 1..Len(chartData.datasets) :
    chartData.datasets[k].label = FuelType[f].label /\ ~chartData.datasets[k].hidden

RowShown(f) == latestCountryDataTable[f].display = ""

ColumnShown(f) ==
  /\ prefectureDataTable.header[f] = ""
  /\ \A p \in PrefectureSet : prefectureDataTable.rows[p][f].display = ""

ColumnHidden(f) ==
  /\ prefectureDataTable.header[f] = "none"
  /\ \A p \in PrefectureSet : prefectureDataTable.rows[p][f].display = "none"

C9_ViewsSynchronized ==
  dailyCountryData # Null =>
    \A f \in FuelTypeSet :
      /\ DatasetShown(f) <=> isVisible(f)
      /\ RowShown(f) <=> isVisible(f)
      /\ IF isVisible(f) THEN ColumnShown(f) ELSE ColumnHidden(f)

(***************************************************************************)
(* C10.  The evolution is unknown, the literal "-" with no direction,      *)
(* whenever the current price is absent, the previous price is absent or   *)
(* the current price is 0: nothing is divided by zero.                     *)
(***************************************************************************)
C10_EvolutionUnknown ==
  evolutionSpan # << >> =>
    LET value == evolutionArgs[1]
        previousValue == evolutionArgs[2]
    IN (value = Undefined \/ previousValue = Undefined \/ value = 0) =>
         evolutionSpan[1] = [classList |-> "", innerHTML |-> "-"]

\* formatEvolution has answered for a current price and no previous price
C10_Witness ==
  /\ evolutionSpan # << >>
  /\ evolutionArgs[1] > 0
  /\ evolutionArgs[2] = Undefined
  /\ evolutionSpan[1].innerHTML = "-"

(***************************************************************************)
(* The prefecture table on richer payloads of /data/country/<date>: a      *)
(* country aggregate, and for each prefecture any of DIESEL and SUPER.      *)
(* One date range at a time is selected, and the checkboxes are left       *)
(* alone.                                                                  *)
(***************************************************************************)
\* the observations of the fuel types of S at price 1, in registry order
ObservationsOf(S) ==
  LET keys == SelectSeq(FuelTypeKeys, LAMBDA f : f \in S)
  IN [i \in 1..Len(keys) |-> [fuel_type |-> keys[i], price |-> 1]]

\* the series: the empty one, and those of one record
RegionSeries ==
  {<< >>} \cup {<< [date |-> MaxDate, data |-> ObservationsOf(S)] >> : S \in SUBSET PageFuelTypes}

\* the country aggregate of the payload
CountryAggregates == {ObservationsOf(S) : S \in SUBSET {"DIESEL", "GAS"}}

RegionTableFuelTypes == {"DIESEL", "SUPER"}

RegionTablePrefectureData == {ObservationsOf(S) : S \in SUBSET RegionTableFuelTypes}

RegionTablePayloads ==
  {[country |-> country, prefectures |-> PrefecturesOf(pd[1], pd[2])] :
     country \in CountryAggregates,
     pd \in {pd \in (SUBSET PrefectureSet) \X [PrefectureSet -> RegionTablePrefectureData] :
               \A p \in PrefectureSet \ pd[1] : pd[2][p] = << >>}}

InitRegion ==
  /\ InitPage
  /\ evolutionArgs = << >>
  /\ evolutionSpan = << >>

NextRegion ==
  \/ InFlight = 0 /\ dateRangeSelected(MaxDate)
  \/ \E endDate \in Awaited("dailyCountryData"), data \in RegionSeries :
       dailyCountryDataResolved(endDate, data)
  \/ \E endDate \in Awaited("countryData"), data \in RegionTablePayloads :
       countryDataResolved(endDate, data)

SpecRegion == InitRegion /\ [][NextRegion]_vars

(***************************************************************************)
(* The evolution the claims speak of: current and previous price, and the  *)
(* percent (current - previous) / current in hundredths of a percent.      *)
(***************************************************************************)
current == evolutionArgs[1]

previous == evolutionArgs[2]

BothPositive == evolutionSpan # << >> /\ current > 0 /\ previous > 0

\* the magnitude of 100 * (current - previous) / current to the nearest
\* hundredth: no other integer n has n / 100 closer to it, and of two equally
\* close the larger is taken
NearestHundredths ==
  LET scaled == 10000 * (IF current < previous THEN previous - current
                         ELSE current - previous)
      Distance(n) == IF n * current < scaled THEN scaled - n * current
                     ELSE n * current - scaled
      floor == scaled \div current
  IN CHOOSE n \in {floor, floor + 1} :
       \A m \in {floor, floor + 1} :
         Distance(n) < Distance(m) \/ (Distance(n) = Distance(m) /\ n >= m)

\* n hundredths written with two decimal digits
TwoDecimals(n) ==
  ToString(n \div 100) \o "."
    \o (IF n % 100 < 10 THEN "0" ELSE "") \o ToString(n % 100)

(***************************************************************************)
(* C11.  When both prices are present and positive the evolution is        *)
(* (current - previous) / current, relative to the current price: the      *)
(* span carries that percent, its direction is up (text-danger) when       *)
(* current > previous, down (text-success) when current < previous, and    *)
(* flat (no class) with percent 0.00 when current = previous.              *)
(***************************************************************************)
C11_EvolutionRelativeToCurrent ==
  BothPositive =>
    LET span == evolutionSpan[1]
    IN /\ span.innerHTML \in
            {sign \o TwoDecimals(NearestHundredths) \o "%" : sign \in {"", "+", "-"}}
       /\ current > previous => span.classList = "text-danger"
       /\ current < previous => span.classList = "text-success"
       /\ current = previous =>
            span.classList = "" /\ span.innerHTML = "0.00%"

\* a price that fell from 12 to 10: down by a fifth of the current price
C11_Witness ==
  /\ BothPositive
  /\ current = 10
  /\ previous = 12
  /\ evolutionSpan[1] = [classList |-> "text-success", innerHTML |-> "-20.00%"]

(***************************************************************************)
(* C12.  A known evolution is rendered as the percent rounded to 2         *)
(* decimal digits followed by '%', with a leading '+' exactly when the     *)
(* percent is strictly positive; current = 1.750 and previous = 1.700      *)
(* render as '+2.86%'.                                                     *)
(***************************************************************************)
C12_EvolutionRendering ==
  BothPositive =>
    LET html == evolutionSpan[1].innerHTML
    IN /\ html = (IF current > previous THEN "+"
                  ELSE IF current < previous THEN "-" ELSE "")
                   \o TwoDecimals(NearestHundredths) \o "%"
       /\ SubSeq(html, 1, 1) = "+" <=> current > previous
       /\ SubSeq(html, Len(html), Len(html)) = "%"
       /\ SubSeq(html, Len(html) - 3, Len(html) - 3) = "."
       /\ (current = 1750 /\ previous = 1700) => html = "+2.86%"

\* the worked example has been rendered
C12_Witness ==
  /\ BothPositive
  /\ current = 1750
  /\ previous = 1700
  /\ evolutionSpan[1].innerHTML = "+2.86%"

(***************************************************************************)
(* The region payload the claims speak of.                                 *)
(***************************************************************************)
\* the payload the page holds (when countryData is not null)
RegionPayload == countryData[1]

\* the fuel types present in the country aggregate of the payload
CountryFuelTypes(payload) ==
  {payload.country[i].fuel_type : i \in 1..Len(payload.country)}

\* the payload has a record of prefecture p
RegionPresent(payload, p) ==
  \E i \in 1..Len(payload.prefectures) : payload.prefectures[i].prefecture = p

\* some record of prefecture p in the payload has an observation for f
RegionHasObservation(payload, p, f) ==
  \E i \in 1..Len(payload.prefectures) :
    /\ payload.prefectures[i].prefecture = p
    /\ \E j \in 1..Len(payload.prefectures[i].data) :
         payload.prefectures[i].data[j].fuel_type = f

\* the text of the cell of prefecture p and fuel type f
Cell(p, f) == prefectureDataTable.rows[p][f].textContent

(***************************************************************************)
(* C13.  Region column restriction: once everything requested has been    *)
(* handled, the columns of the prefecture table that are displayed are     *)
(* exactly the fuel types present in the country aggregate of the region   *)
(* payload the page holds.                                                 *)
(***************************************************************************)
C13_ColumnsOfCountryAggregate ==
  (countryData # Null /\ InFlight = 0) =>
    \A f \in FuelTypeSet :
      IF f \in CountryFuelTypes(RegionPayload) THEN ColumnShown(f) ELSE ColumnHidden(f)

(***************************************************************************)
(* C14.  In the prefecture table, for every prefecture present in the      *)
(* payload the page holds and every fuel type, the cell shows the absence  *)
(* marker '-' when the prefecture has no observation for the fuel type,    *)
(* and a price only when it has one.                                       *)
(***************************************************************************)
C14_AbsentCells ==
  countryData # Null =>
    \A p \in PrefectureSet : \A f \in FuelTypeSet :
      RegionPresent(RegionPayload, p) =>
        IF RegionHasObservation(RegionPayload, p, f)
        THEN Cell(p, f) = formatPrice(1)
        ELSE Cell(p, f) = "-"

(***************************************************************************)
(* C15.  Unknown fuel type rejection: a series with an observation whose   *)
(* fuel_type is outside the registry is rejected, and no aligned series,   *)
(* not even a partial one, is installed in the chart: the chart is as it   *)
(* was built.                                                              *)
(***************************************************************************)
HasUnknownFuelType(series) ==
  \E i \in 1..Len(series) : \E j \in 1..Len(series[i].data) :
    series[i].data[j].fuel_type \notin FuelTypeSet

C15_UnknownFuelTypeRejected ==
  (dailyCountryData # Null /\ HasUnknownFuelType(Series)) =>
    chartData = initializeDailyCountryDataChart

(***************************************************************************)
(* C16.  A series whose dates are not strictly increasing is rejected:     *)
(* loading it changes neither the chart, the latest-values table nor the   *)
(* selected and enabled flags, which are as they were built.               *)
(***************************************************************************)
C16_MalformedDatesRejected ==
  (dailyCountryData # Null /\ ~StrictlyIncreasing(Series)) =>
    /\ chartData = initializeDailyCountryDataChart
    /\ latestCountryDataTable = initializeLatestCountryDataTable
    /\ checked = initializeFuelTypeSelector.checked
    /\ disabled = initializeFuelTypeSelector.disabled

(***************************************************************************)
(* C17.  Loading an empty series is not an error: the handling of a        *)
(* resolved payload with zero records completes, so that the fetch of the  *)
(* region payload chained after it is sent, and leaves the chart with a    *)
(* zero-length date axis and an empty data array for every fuel type of    *)
(* the registry.                                                           *)
(***************************************************************************)
C17_EmptySeriesLoads ==
  [][(SeriesLoaded /\ Len(dailyCountryData'[1]) = 0) =>
       /\ \E endDate \in Dates :
            /\ dailyCountryDataResolved(endDate, dailyCountryData'[1])
            /\ pending'[CountryDataRequest(endDate)] = pending[CountryDataRequest(endDate)] + 1
       /\ chartData'.labels = << >>
       /\ Len(chartData'.datasets) = Len(FuelTypeKeys)
       /\ \A k \in 1..Len(chartData'.datasets) : chartData'.datasets[k].data = << >>]_vars

(***************************************************************************)
(* C18.  The load is idempotent: a load of the series the page already     *)
(* holds, as the second of two loads of the same series in a row is,       *)
(* changes neither the selected and enabled flags, the chart, the          *)
(* latest-values table nor what the views show.                            *)
(***************************************************************************)
C18_LoadIdempotent ==
  [][(SeriesLoaded /\ dailyCountryData = dailyCountryData') =>
       /\ checked' = checked
       /\ disabled' = disabled
       /\ chartData' = chartData
       /\ latestCountryDataTable' = latestCountryDataTable
       /\ prefectureDataTable' = prefectureDataTable]_vars

\* two loads for the same end date have been handled one after the other:
\* both fetches of the region payload are still in flight
C18_Witness ==
  /\ dailyCountryData # Null
  /\ Len(Series) = 2
  /\ \E endDate \in Dates : pending[CountryDataRequest(endDate)] = 2

(***************************************************************************)
(* C19.  With no user toggles the selected and enabled flags are driven    *)
(* only by the content of the latest series: whatever series were loaded   *)
(* before it, they are what loading the latest series alone, on the page   *)
(* as it was built, gives: enabled iff the series has data for the fuel    *)
(* type, selected iff it is enabled and selected by default.               *)
(***************************************************************************)
C19_LatestSeriesAlone ==
  dailyCountryData # Null =>
    \A f \in FuelTypeSet :
      /\ enabled(f) <=> HasData(Series, f)
      /\ selected(f) <=> (HasData(Series, f) /\ initializeFuelTypeSelector.checked[f])

(***************************************************************************)
(* C20.  The fuel types appear in the registry's declaration order in      *)
(* every view, whatever has been loaded or toggled: the checkboxes of the  *)
(* selector, the rows of the latest-values table, the header cells and     *)
(* the cells of every row of the prefecture table, and, once the chart     *)
(* has datasets, the datasets of the chart.                                *)
(***************************************************************************)
RegistryLabels == [k \in 1..Len(FuelTypeKeys) |-> FuelType[FuelTypeKeys[k]].label]

C20_RegistryOrderEverywhere ==
  /\ childOrder.fuelTypeSelector = FuelTypeKeys
  /\ childOrder.latestCountryDataTable = FuelTypeKeys
  /\ childOrder.prefectureDataHeader = FuelTypeKeys
  /\ \A p \in PrefectureSet : childOrder.prefectureDataCells[p] = FuelTypeKeys
  /\ Len(chartData.datasets) > 0 =>
       [k \in 1..Len(chartData.datasets) |-> chartData.datasets[k].label] = RegistryLabels

\* the chart has its six datasets; GAS and DIESEL are in the series, the
\* user has unselected GAS and its dataset is hidden
C20_Witness ==
  /\ dailyCountryData # Null
  /\ Len(chartData.datasets) = Len(FuelTypeKeys)
  /\ enabled("GAS") /\ ~selected("GAS")
  /\ enabled("DIESEL") /\ selected("DIESEL")
  /\ \E k \in 1..Len(chartData.datasets) :
       chartData.datasets[k].label = FuelType["GAS"].label /\ chartData.datasets[k].hidden

(***************************************************************************)
(* C21.  The prefecture table has exactly one row per prefecture of the    *)
(* registry, ordered by the locale-aware comparison of the labels; the     *)
(* order is total and deterministic: of two rows the upper one's label     *)
(* sorts strictly before the lower one's, so no two labels compare equal   *)
(* and no tie is left to be broken.                                        *)
(***************************************************************************)
\* no two prefectures of the whole registry have labels that compare equal
LabelsNeverTie ==
  \A i, j \in 1..Len(AllPrefectureKeys) :
    i # j => localeCompare(Prefecture[AllPrefectureKeys[i]], Prefecture[AllPrefectureKeys[j]]) # 0

C21_RowsInLabelOrder ==
  LET rows == childOrder.prefectureDataRows
  IN /\ LabelsNeverTie
     /\ Len(rows) = Cardinality(PrefectureSet)
     /\ {rows[i] : i \in 1..Len(rows)} = PrefectureSet
     /\ \A i, j \in 1..Len(rows) :
          i < j => localeCompare(Prefecture[rows[i]], Prefecture[rows[j]]) < 0

\* a region payload has been loaded into a table whose first row is not the
\* first prefecture of the registry
C21_Witness ==
  /\ countryData # Null
  /\ childOrder.prefectureDataRows[1] # PrefectureKeys[1]
  /\ childOrder.prefectureDataRows[Len(PrefectureKeys)] = "ATTICA"

(***************************************************************************)
(* The latest country data table on series of up to MaxLatestDays records  *)
(* dated 1, 2, ...: each record has DIESEL or not and GAS or not, at a     *)
(* price of 1 .. MaxAlignPrice.                                            *)
(***************************************************************************)
LatestFuelTypes == {"GAS", "DIESEL"}

\* the data of one record: at most one observation per fuel type, in
\* registry order
LatestRecordData ==
  {SelectSeq([k \in 1..Len(FuelTypeKeys) |->
                [fuel_type |-> FuelTypeKeys[k],
                 price |-> IF FuelTypeKeys[k] \in LatestFuelTypes
                           THEN priceOf[FuelTypeKeys[k]] ELSE 0]],
             LAMBDA e : e.price > 0) :
     priceOf \in [LatestFuelTypes -> 0..MaxAlignPrice]}

LatestPayloads ==
  UNION {{[i \in 1..n |-> [date |-> i, data |-> dataOf[i]]] :
            dataOf \in [1..n -> LatestRecordData]} : n \in 0..MaxLatestDays}

NextLatest ==
  \E endDate \in Awaited("dailyCountryData"), data \in LatestPayloads :
    dailyCountryDataResolved(endDate, data)

SpecLatest == InitAlign /\ [][NextLatest]_vars

\* the positions of the series before the last whose record has an
\* observation for f
EarlierObservations(series, f) ==
  {i \in 1..(Len(series) - 1) : HasObservation(series[i], f)}

\* the price of the immediately preceding available observation for f, or
\* undefined when no record before the last has one
PrecedingAvailablePrice(series, f) ==
  IF EarlierObservations(series, f) = {} THEN Undefined
  ELSE LET i == CHOOSE i \in EarlierObservations(series, f) :
                  \A j \in EarlierObservations(series, f) : j <= i
       IN FindPrice(series[i].data, f)

(***************************************************************************)
(* C22.  The evolution shown for a fuel type in the latest-values table is *)
(* the relative change between its latest observation and its immediately *)
(* preceding available observation in the loaded series, also when that    *)
(* observation is in a record earlier than the second-to-last.             *)
(***************************************************************************)
C22_EvolutionFromPrecedingAvailable ==
  (dailyCountryData # Null /\ Len(Series) > 0) =>
    \A f \in FuelTypeSet :
      latestCountryDataTable[f].evolution =
        outerHTML(formatEvolution(FindPrice(Series[Len(Series)].data, f),
                                  PrecedingAvailablePrice(Series, f)))

(***************************************************************************)
(* C23.  The two alignment algorithms give identical results: for every    *)
(* valid series (fuel types of the registry only, each at most once in a   *)
(* record) what loadDailyCountryDataChart of main.js puts in the chart and *)
(* what displayDailyCountryChart of index.js computes have the same date   *)
(* axis and, for every fuel type and index, the same price or both an      *)
(* absent marker.                                                          *)
(***************************************************************************)
ValidSeries(series) ==
  /\ ~HasUnknownFuelType(series)
  /\ \A i \in 1..Len(series) : \A j, h \in 1..Len(series[i].data) :
       j # h => series[i].data[j].fuel_type # series[i].data[h].fuel_type

C23_AlignersAgree ==
  (dailyCountryData # Null /\ ValidSeries(Series)) =>
    LET perRecord == displayDailyCountryChart(Series)
    IN /\ perRecord.labels = Aligned.labels
       /\ \A f \in FuelTypeSet :
            \E k \in 1..Len(perRecord.datasets) :
              /\ perRecord.datasets[k].label = FuelType[f].label
              /\ Len(perRecord.datasets[k].data) = Len(Aligned.datasets[DatasetOf(f)].data)
              /\ \A i \in 1..Len(Series) :
                   LET old == perRecord.datasets[k].data[i]
                       new == Aligned.datasets[DatasetOf(f)].data[i]
                   IN IF new = Undefined THEN old = NullPrice ELSE old = new

\* a valid series of two records: two fuel types on the first date, none on
\* the second
C23_Witness ==
  /\ dailyCountryData # Null
  /\ ValidSeries(Series)
  /\ Len(Series) = 2
  /\ Len(Series[1].data) = 2
  /\ Len(Series[2].data) = 0
  /\ chartData.labels = << Series[1].date, Series[2].date >>

(***************************************************************************)
(* Overlapping selections: the user selects ranges ending at any date      *)
(* while earlier fetches are in flight, and the server answers each        *)
(* request with the data it holds for the dates asked, in any order.       *)
(***************************************************************************)
\* the record the server holds for a date: diesel at a price that tells the
\* date, and from the second date on gas too
ServedRecord(date) ==
  [date |-> date,
   data |-> << [fuel_type |-> "DIESEL", price |-> date] >> \o
            (IF date > 1 THEN << [fuel_type |-> "GAS", price |-> date] >> ELSE << >>)]

\* the response to API.dailyCountryData(startDate, endDate), startDate being
\* the first date
ServedDailyCountryData(endDate) == [i \in 1..endDate |-> ServedRecord(i)]

\* the response to API.countryData(date): every prefecture, with diesel at a
\* price that tells the date
ServedCountryData(date) ==
  [country     |-> << >>,
   prefectures |-> [k \in 1..Len(PrefectureKeys) |->
                      [prefecture |-> PrefectureKeys[k],
                       data       |-> << [fuel_type |-> "DIESEL", price |-> date] >>]]]

NextOverlap ==
  \/ \E endDate \in Dates : dateRangeSelected(endDate)
  \/ \E endDate \in Awaited("dailyCountryData") :
       dailyCountryDataResolved(endDate, ServedDailyCountryData(endDate))
  \/ \E endDate \in Awaited("countryData") :
       countryDataResolved(endDate, ServedCountryData(endDate))
  \/ \E f \in {"DIESEL", "GAS"} : fuelTypeInputClicked(f)

SpecOverlap == Init /\ [][NextOverlap]_vars

(***************************************************************************)
(* C24.  Once no series fetch is in flight, the stored series, the chart,  *)
(* the latest-values table and the enabled flags are those of the range    *)
(* selected last: a payload of a superseded range that arrives late never  *)
(* overwrites the newer one.                                               *)
(***************************************************************************)
C24_LatestSelectionWins ==
  (datePicker # Null /\ Awaited("dailyCountryData") = {}) =>
    LET served == ServedDailyCountryData(datePicker[1])
    IN /\ dailyCountryData = Some(served)
       /\ chartData.labels = [i \in 1..Len(served) |-> served[i].date]
       /\ \A f \in FuelTypeSet :
            /\ latestCountryDataTable[f].price =
                 formatPrice(FindPrice(served[Len(served)].data, f))
            /\ enabled(f) <=> f \in availableFuelTypes(served)

(***************************************************************************)
(* C25.  Once every outstanding request has resolved, the per-region       *)
(* table, the latest-date label, the latest-values table and the chart     *)
(* originate from the same selection: the region payload displayed is the  *)
(* one fetched for the end date of the selection whose series is displayed.*)
(***************************************************************************)
C25_OneSelectionDisplayed ==
  (InFlight = 0 /\ dailyCountryData # Null /\ countryData # Null) =>
    \E endDate \in Dates :
      /\ latestDate = Some(endDate)
      /\ dailyCountryData = Some(ServedDailyCountryData(endDate))
      /\ chartData.labels = [i \in 1..endDate |-> ServedRecord(i).date]
      /\ countryData = Some(ServedCountryData(endDate))
      /\ \A p \in PrefectureSet :
           prefectureDataTable.rows[p]["DIESEL"].textContent = formatPrice(endDate)

(***************************************************************************)
(* C26.  Within one selection the region request for the end date is       *)
(* issued only by the step that stored the selection's series and loaded   *)
(* the selector, the latest-values table and the chart from it; the region *)
(* table is never filled before a series has been applied, and a step in   *)
(* which applying the series raises issues no region request.              *)
(***************************************************************************)
\* the step issues a region request for endDate
CountryDataRequested(endDate) ==
  pending'[CountryDataRequest(endDate)] > pending[CountryDataRequest(endDate)]

\* the step applied the resolved series of the selection ending at endDate
SeriesApplied(endDate) ==
  /\ pending'[DailyCountryDataRequest(endDate)] = pending[DailyCountryDataRequest(endDate)] - 1
  /\ dailyCountryData' # Null
  /\ latestDate' = Some(endDate)
  /\ LET data == dailyCountryData'[1]
     IN /\ Len(data) > 0
        /\ \A f \in FuelTypeSet :
             /\ disabled'[f] <=> f \notin availableFuelTypes(data)
             /\ latestCountryDataTable'[f].price =
                  formatPrice(FindPrice(data[Len(data)].data, f))
        /\ chartData'.labels = [i \in 1..Len(data) |-> data[i].date]

\* the step handled a resolved series and applying it raised
SeriesRaised ==
  /\ \E endDate \in Dates :
       pending'[DailyCountryDataRequest(endDate)] < pending[DailyCountryDataRequest(endDate)]
  /\ dailyCountryData' # Null
  /\ loadLatestCountryDataTableThrows(dailyCountryData'[1])

C26_RegionAfterSeries ==
  /\ [][\A endDate \in Dates : CountryDataRequested(endDate) => SeriesApplied(endDate)]_vars
  /\ [][SeriesRaised => \A endDate \in Dates : ~CountryDataRequested(endDate)]_vars
  /\ [](\A endDate \in Dates :
          (pending[CountryDataRequest(endDate)] > 0 \/ countryData # Null)
            => dailyCountryData # Null)

\* the region request of the selection ending at endDate is in flight, its
\* series stored and loaded
C26_Witness ==
  \E endDate \in Dates :
    /\ pending[CountryDataRequest(endDate)] > 0
    /\ latestDate = Some(endDate)
    /\ dailyCountryData # Null
    /\ Len(Series) > 0
    /\ chartData.labels = [i \in 1..Len(Series) |-> Series[i].date]
    /\ countryData = Null

(***************************************************************************)
(* C27.  When a region payload has no record for some prefecture of the    *)
(* registry, loadPrefectureDataTable aborts at the first such prefecture   *)
(* in declaration order: the rows of the prefectures declared before it    *)
(* show the new payload, its own row and the rows of all the prefectures   *)
(* declared after it keep what they showed before the payload arrived.     *)
(***************************************************************************)
\* the positions in declaration order of the prefectures the payload lacks
MissingRegions(payload) ==
  {k \in 1..Len(PrefectureKeys) : ~RegionPresent(payload, PrefectureKeys[k])}

\* the step handled a resolved region payload
RegionPayloadHandled ==
  /\ \E endDate \in Dates :
       pending'[CountryDataRequest(endDate)] < pending[CountryDataRequest(endDate)]
  /\ countryData' # Null

C27_AbortsAtMissingRegion ==
  [][(RegionPayloadHandled /\ MissingRegions(countryData'[1]) # {}) =>
       LET payload == countryData'[1]
           first == CHOOSE k \in MissingRegions(payload) :
                      \A j \in MissingRegions(payload) : k <= j
       IN \A k \in 1..Len(PrefectureKeys) :
            IF k < first
            THEN \A f \in FuelTypeSet :
                   prefectureDataTable'.rows[PrefectureKeys[k]][f].textContent =
                     (IF RegionHasObservation(payload, PrefectureKeys[k], f)
                      THEN formatPrice(1) ELSE "-")
            ELSE prefectureDataTable'.rows[PrefectureKeys[k]] =
                   prefectureDataTable.rows[PrefectureKeys[k]]]_vars

\* the payload held lacks the second prefecture: the first row shows its
\* diesel price as absent while the second still shows a price of an earlier
\* payload
C27_Witness ==
  /\ countryData # Null
  /\ MissingRegions(RegionPayload) = {2}
  /\ Cell(PrefectureKeys[1], "DIESEL") = "-"
  /\ Cell(PrefectureKeys[2], "DIESEL") = formatPrice(1)

(***************************************************************************)
(* C28.  A fuel type that a load without data for it disabled is           *)
(* unselected when a later load enables it again, whatever the user had    *)
(* selected before and whatever the registry default is, and it stays      *)
(* unselected until the user toggles it: only a click on its own checkbox  *)
(* selects a fuel type.                                                    *)
(***************************************************************************)
\* the step is the user's click on the enabled checkbox of f
Toggled(f) ==
  /\ enabled(f)
  /\ checked' = [checked EXCEPT ![f] = ~checked[f]]
  /\ UNCHANGED << disabled, dailyCountryData, pending >>

C28_SelectionNotRestored ==
  /\ [][\A f \in FuelTypeSet : (~enabled(f) /\ enabled(f)') => ~selected(f)']_vars
  /\ [][\A f \in FuelTypeSet : (~selected(f) /\ selected(f)') => Toggled(f)]_vars

\* gas, selected by default, has data in the stored series and is enabled
\* but not selected, and its row is hidden
C28_Witness ==
  /\ dailyCountryData # Null
  /\ "GAS" \in availableFuelTypes(Series)
  /\ ~FuelType["GAS"].defaultUnselected
  /\ enabled("GAS")
  /\ ~selected("GAS")
  /\ latestCountryDataTable["GAS"].display = "none"

(***************************************************************************)
(* Rejected fetches: every fetch either resolves or is rejected.           *)
(***************************************************************************)
NextError ==
  \/ \E endDate \in Dates : dateRangeSelected(endDate)
  \/ \E endDate \in Awaited("dailyCountryData"), data \in RegionSeries :
       dailyCountryDataResolved(endDate, data)
  \/ \E endDate \in Awaited("countryData") :
       countryDataResolved(endDate, ServedCountryData(endDate))
  \/ \E endDate \in Awaited("dailyCountryData"), error \in FetchErrors :
       dailyCountryDataRejected(endDate, error)
  \/ \E endDate \in Awaited("countryData"), error \in FetchErrors :
       countryDataRejected(endDate, error)

SpecError == Init /\ [][NextError]_vars

(***************************************************************************)
(* C29.  A rejected series or region fetch only switches the page to the   *)
(* error state (main content hidden, error message shown): the stored      *)
(* series, the region payload, the selected and enabled flags, the chart   *)
(* data and the table contents stay exactly as they were; and the next     *)
(* response that arrives, for any request, switches the page back to the   *)
(* normal state.                                                           *)
(***************************************************************************)
ErrorState(p) == p.main = "none" /\ p.error = "" /\ p.innerHTML # ""

NormalState(p) == p.main = "" /\ p.error = "none" /\ p.innerHTML = ""

\* a fetch in flight ended in the step, resolved or rejected
FetchEnded == \E r \in Requests : pending'[r] < pending[r]

C29_RejectionOnlyShowsError ==
  /\ [][FetchEnded =>
          \/ NormalState(page')
          \/ /\ ErrorState(page')
             /\ UNCHANGED << dailyCountryData, countryData, checked, disabled,
                             latestDate, chartData, latestCountryDataTable,
                             prefectureDataTable >>]_vars
  /\ [][(page' # page) => FetchEnded]_vars
  /\ [](NormalState(page) \/ ErrorState(page))

\* the page is in the error state with a series, a region payload and a
\* filled prefecture table still in place
C29_Witness ==
  /\ ErrorState(page)
  /\ dailyCountryData # Null
  /\ Len(Series) > 0
  /\ countryData # Null
  /\ \A p \in PrefectureSet : Cell(p, "DIESEL") # ""

(***************************************************************************)
(* C30.  After a series load the date in the latest-date label is the date *)
(* of the last record of the loaded series, the record whose prices fill   *)
(* the latest-values table, and the region payload is requested for that   *)
(* same date, also when the series has no record dated at the end of the   *)
(* selected range.                                                         *)
(***************************************************************************)
C30_LabelIsLastRecordDate ==
  (dailyCountryData # Null /\ Len(Series) > 0) =>
    /\ latestDate = Some(Series[Len(Series)].date)
    /\ \A endDate \in Dates :
         (latestDate = Some(endDate) /\ pending[CountryDataRequest(endDate)] > 0) =>
           endDate = Series[Len(Series)].date

====
